---- MODULE Spec2Model ----
(***************************************************************************)
(* MapMyNotes: the text -> mind map pipeline of src/modules/pipeline.py.   *)
(*                                                                         *)
(* Python strings are sequences of one-character strings.  Python values   *)
(* (what json.loads produces, and None) are records tagged by field t:     *)
(*   none | bool | num | str | list | dict.                                *)
(* The JSON grammar covers objects, arrays, strings without escapes,       *)
(* integers and the literals null/true/false; texts over an alphabet       *)
(* without backslash, fraction or exponent marks are parsed as json.loads  *)
(* parses them.                                                            *)
(***************************************************************************)
EXTENDS Integers, Sequences, FiniteSets, TLC

\* ------------------------------------------------------------------ strings

Min(a, b) == IF a < b THEN a ELSE b

Max(a, b) == IF a < b THEN b ELSE a

NL == "\n"

Whitespace == {" ", "\n", "\t", "\r"}

Digits == {"0", "1", "2", "3", "4", "5", "6", "7", "8", "9"}

\* s[:n]
Take(s, n) == SubSeq(s, 1, Min(Len(s), n))

\* s[i:j] in Python's 0-based half-open slices
Slice(s, i, j) == SubSeq(s, i + 1, Min(Len(s), j))

\* str.strip()
Strip(s) ==
  LET keep == {i \in 1..Len(s) : s[i] \notin Whitespace}
  IN  IF keep = {} THEN <<>>
      ELSE LET lo == CHOOSE i \in keep : \A j \in 1..(i - 1) : s[j] \in Whitespace
               hi == CHOOSE i \in keep : \A j \in (i + 1)..Len(s) : s[j] \in Whitespace
           IN  SubSeq(s, lo, hi)

\* str.splitlines(): the lines of s, the line breaks dropped; "" gives [].
RECURSIVE SplitLines(_)
SplitLines(s) ==
  IF s = <<>> THEN <<>>
  ELSE LET brk == {i \in 1..Len(s) : s[i] = NL}
       IN  IF brk = {} THEN <<s>>
           ELSE LET b == CHOOSE i \in brk : \A j \in brk : i <= j
                IN  <<SubSeq(s, 1, b - 1)>> \o SplitLines(SubSeq(s, b + 1, Len(s)))

StartsWith(s, p) == Len(s) >= Len(p) /\ SubSeq(s, 1, Len(p)) = p

\* sep.join(parts)
RECURSIVE Join(_, _)
Join(sep, parts) ==
  IF parts = <<>> THEN <<>>
  ELSE IF Len(parts) = 1 THEN parts[1]
  ELSE parts[1] \o sep \o Join(sep, Tail(parts))

\* n repetitions of the character c
Rep(c, n) == [i \in 1..n |-> c]

\* a quoted JSON string literal
Q(s) == <<"\"">> \o s \o <<"\"">>

\* ------------------------------------------------------------ Python values

PyNone == [t |-> "none"]

PyBool(b) == [t |-> "bool", b |-> b]

PyNum(n) == [t |-> "num", n |-> n]

PyStr(s) == [t |-> "str", s |-> s]

PyList(xs) == [t |-> "list", items |-> xs]

\* a dict keeps its keys in insertion order; keys are strings
PyDict(ks, vs) == [t |-> "dict", keys |-> ks, vals |-> vs]

EmptyDict == PyDict(<<>>, <<>>)

HasKey(d, k) == \E i \in 1..Len(d.keys) : d.keys[i] = k

KeyIndex(d, k) == CHOOSE i \in 1..Len(d.keys) : d.keys[i] = k

\* d[k] = v
DictSet(d, k, v) ==
  IF HasKey(d, k)
  THEN PyDict(d.keys, [d.vals EXCEPT ![KeyIndex(d, k)] = v])
  ELSE PyDict(Append(d.keys, k), Append(d.vals, v))

\* d.get(k, default)
DictGet(d, k, default) == IF HasKey(d, k) THEN d.vals[KeyIndex(d, k)] ELSE default

\* bool(v)
Truthy(v) ==
  CASE v.t = "none" -> FALSE
    [] v.t = "bool" -> v.b
    [] v.t = "num"  -> v.n # 0
    [] v.t = "str"  -> v.s # <<>>
    [] v.t = "list" -> v.items # <<>>
    [] v.t = "dict" -> v.keys # <<>>

\* --------------------------------------------------------------- json.loads

ParseFail == [ok |-> FALSE, v |-> PyNone, next |-> 0]

ParseOk(v, next) == [ok |-> TRUE, v |-> v, next |-> next]

\* the first position >= i of s that holds no JSON whitespace (Len(s)+1: none)
SkipWs(s, i) ==
  LET stop == {j \in i..Len(s) : s[j] \notin Whitespace}
  IN  IF stop = {} THEN Len(s) + 1 ELSE CHOOSE j \in stop : \A k \in stop : j <= k

At(s, i, c) == i >= 1 /\ i <= Len(s) /\ s[i] = c

\* a string literal whose opening quote is at i - 1
ParseString(s, i) ==
  LET quotes == {j \in i..Len(s) : s[j] = "\""}
  IN  IF quotes = {} THEN ParseFail
      ELSE LET j == CHOOSE q \in quotes : \A k \in quotes : q <= k
           IN  IF \E k \in i..(j - 1) : s[k] \in {"\n", "\t", "\r"}
               THEN ParseFail
               ELSE ParseOk(PyStr(SubSeq(s, i, j - 1)), j + 1)

DigitVal(c) ==
  CASE c = "0" -> 0 [] c = "1" -> 1 [] c = "2" -> 2 [] c = "3" -> 3 [] c = "4" -> 4
    [] c = "5" -> 5 [] c = "6" -> 6 [] c = "7" -> 7 [] c = "8" -> 8 [] c = "9" -> 9

RECURSIVE DigitsVal(_)
DigitsVal(ds) ==
  IF ds = <<>> THEN 0
  ELSE 10 * DigitsVal(SubSeq(ds, 1, Len(ds) - 1)) + DigitVal(ds[Len(ds)])

\* an integer literal starting at i: -?(0|[1-9][0-9]*)
ParseNumber(s, i) ==
  LET neg == At(s, i, "-")
      d0 == IF neg THEN i + 1 ELSE i
      nondigit == {j \in d0..Len(s) : s[j] \notin Digits}
      stop == IF nondigit = {} THEN Len(s) + 1
              ELSE CHOOSE j \in nondigit : \A k \in nondigit : j <= k
      last == IF At(s, d0, "0") THEN d0 ELSE stop - 1
  IN  IF last < d0 THEN ParseFail
      ELSE LET n == DigitsVal(SubSeq(s, d0, last))
           IN  ParseOk(PyNum(IF neg THEN 0 - n ELSE n), last + 1)

LitNull == <<"n", "u", "l", "l">>

LitTrue == <<"t", "r", "u", "e">>

LitFalse == <<"f", "a", "l", "s", "e">>

RECURSIVE ParseValue(_, _)
RECURSIVE ParseElems(_, _, _)
RECURSIVE ParseMembers(_, _, _)

\* the elements of an array after "[" or ",", up to the closing "]"
ParseElems(s, i, acc) ==
  LET r == ParseValue(s, i)
  IN  IF ~r.ok THEN ParseFail
      ELSE LET k == SkipWs(s, r.next)
           IN  IF At(s, k, ",") THEN ParseElems(s, k + 1, Append(acc, r.v))
               ELSE IF At(s, k, "]") THEN ParseOk(PyList(Append(acc, r.v)), k + 1)
               ELSE ParseFail

\* the members of an object after "{" or ",", up to the closing "}"
ParseMembers(s, i, acc) ==
  LET k0 == SkipWs(s, i)
  IN  IF ~At(s, k0, "\"") THEN ParseFail
      ELSE LET key == ParseString(s, k0 + 1)
           IN  IF ~key.ok THEN ParseFail
               ELSE LET c == SkipWs(s, key.next)
                    IN  IF ~At(s, c, ":") THEN ParseFail
                        ELSE LET r == ParseValue(s, c + 1)
                             IN  IF ~r.ok THEN ParseFail
                                 ELSE LET k == SkipWs(s, r.next)
                                          d == DictSet(acc, key.v.s, r.v)
                                      IN  IF At(s, k, ",") THEN ParseMembers(s, k + 1, d)
                                          ELSE IF At(s, k, "}") THEN ParseOk(d, k + 1)
                                          ELSE ParseFail

ParseValue(s, i) ==
  LET j == SkipWs(s, i)
  IN  IF j > Len(s) THEN ParseFail
      ELSE IF s[j] = "[" THEN
             (IF At(s, SkipWs(s, j + 1), "]")
              THEN ParseOk(PyList(<<>>), SkipWs(s, j + 1) + 1)
              ELSE ParseElems(s, j + 1, <<>>))
      ELSE IF s[j] = "{" THEN
             (IF At(s, SkipWs(s, j + 1), "}")
              THEN ParseOk(EmptyDict, SkipWs(s, j + 1) + 1)
              ELSE ParseMembers(s, j + 1, EmptyDict))
      ELSE IF s[j] = "\"" THEN ParseString(s, j + 1)
      ELSE IF s[j] \in Digits \cup {"-"} THEN ParseNumber(s, j)
      ELSE IF StartsWith(SubSeq(s, j, Len(s)), LitNull) THEN ParseOk(PyNone, j + 4)
      ELSE IF StartsWith(SubSeq(s, j, Len(s)), LitTrue) THEN ParseOk(PyBool(TRUE), j + 4)
      ELSE IF StartsWith(SubSeq(s, j, Len(s)), LitFalse) THEN ParseOk(PyBool(FALSE), j + 5)
      ELSE ParseFail

\* json.loads(s): [ok |-> FALSE] stands for the exception it raises
JsonLoads(s) ==
  LET r == ParseValue(s, 1)
  IN  IF r.ok /\ SkipWs(s, r.next) > Len(s) THEN [ok |-> TRUE, v |-> r.v]
      ELSE [ok |-> FALSE, v |-> PyNone]

\* a variant that stops at the first closer, as the lazy pattern
\* r'(\{.*?\}|\[.*?\])' would
RegexSpanLazy(s) ==
  LET Closer(c) == IF c = "{" THEN "}" ELSE "]"
      starts == {i \in 1..Len(s) :
                   /\ s[i] \in {"{", "["}
                   /\ \E j \in (i + 1)..Len(s) : s[j] = Closer(s[i])}
  IN  IF starts = {} THEN <<>>
      ELSE LET i0 == CHOOSE i \in starts : \A k \in starts : i <= k
               ends == {j \in (i0 + 1)..Len(s) : s[j] = Closer(s[i0])}
               j0 == CHOOSE j \in ends : \A k \in ends : j <= k
           IN  SubSeq(s, i0, j0)

\* re.search(r'(\{.*\}|\[.*\])', s, re.S): the leftmost opener that has a closer
\* of its kind after it, up to the last such closer; <<>> when nothing matches
\* (a match is never empty).
RegexSpan(s) ==
  LET Closer(c) == IF c = "{" THEN "}" ELSE "]"
      starts == {i \in 1..Len(s) :
                   /\ s[i] \in {"{", "["}
                   /\ \E j \in (i + 1)..Len(s) : s[j] = Closer(s[i])}
  IN  IF starts = {} THEN <<>>
      ELSE LET i0 == CHOOSE i \in starts : \A k \in starts : i <= k
               ends == {j \in (i0 + 1)..Len(s) : s[j] = Closer(s[i0])}
               j0 == CHOOSE j \in ends : \A k \in ends : k <= j
           IN  SubSeq(s, i0, j0)

\* _safe_json_loads(s)
SafeJsonLoads(s) ==
  LET direct == JsonLoads(s)
  IN  IF direct.ok THEN direct.v
      ELSE LET m == RegexSpan(s)
           IN  IF m # <<>>
               THEN (LET inner == JsonLoads(m) IN IF inner.ok THEN inner.v ELSE PyNone)
               ELSE PyNone

\* ---------------------------------------------------------------- bounds

\* _call_gemini is tried with every retries value 0..MaxRetry
MaxRetry == 2

\* the pool the 8 hex digits of _short_id are drawn from is 1..NumHex
NumHex == 2

\* build_graph_from_hierarchy is called up to MaxBuildCalls times in a row
MaxBuildCalls == 2

\* outlines nest up to MaxDepth levels and hold up to MaxWidth top-level items
MaxDepth == 3

MaxWidth == 2

\* the small chunk_threshold_chars passed to the pipeline besides the default
SmallThreshold == 3

\* generate_quiz_and_flashcards is called up to MaxQuizCalls times in a row
MaxQuizCalls == 2

\* the app's script runs up to MaxRuns times in a session
MaxRuns == 4

\* ----------------------------------------------------- program constants

LabelMax == 140

SummaryMax == 400

KeyPointsMax == 6

FallbackNodeSummaryMax == 320

FallbackSummaryMax == 800

DefaultThreshold == 18000

DefaultRetry == 1

MaxKeywords == 12

MinWordLen == 3

\* "__GEMINI_ERROR__: "
GEMINI_ERROR ==
  <<"_", "_", "G", "E", "M", "I", "N", "I", "_", "E", "R", "R", "O", "R", "_", "_", ":", " ">>

\* ------------------------------------------------------------------- texts

Ktitle == <<"t", "i", "t", "l", "e">>

Ksummary == <<"s", "u", "m", "m", "a", "r", "y">>

Kkey_points == <<"k", "e", "y", "_", "p", "o", "i", "n", "t", "s">>

Ksubtopics == <<"s", "u", "b", "t", "o", "p", "i", "c", "s">>

Kthesis == <<"t", "h", "e", "s", "i", "s">>

Kbullets == <<"b", "u", "l", "l", "e", "t", "s">>

Kquiz == <<"q", "u", "i", "z">>

Kexplanation == <<"e", "x", "p", "l", "a", "n", "a", "t", "i", "o", "n">>

MainTopic == <<"M", "a", "i", "n", " ", "T", "o", "p", "i", "c">>

NoExplanation ==
  <<"N", "o", " ", "e", "x", "p", "l", "a", "n", "a", "t", "i", "o", "n", " ",
    "a", "v", "a", "i", "l", "a", "b", "l", "e", ".">>

ExplanationUnavailable ==
  <<"E", "x", "p", "l", "a", "n", "a", "t", "i", "o", "n", " ",
    "u", "n", "a", "v", "a", "i", "l", "a", "b", "l", "e", ".">>

\* str(resp) of a response object whose text is empty
ReprOfResponse == <<"<", "r", "e", "s", "p", "o", "n", "s", "e", ">">>

\* ---- responses of the model (the text attribute of the response object)

TxtAb == <<"A", "b">>

TxtBlank == <<" ">>

TxtEmpty == <<>>

TxtTwoLines == <<" ", "A", "b", " ", "\n", "C", "d">>

TxtLong == Rep("a", LabelMax + 1)

\* [{"title":"Ab","summary":"Sm","key_points":["kp"],
\*   "subtopics":[{"title":"Cd"}]},{"title":"Ef"}]
TxtOutline ==
  <<"[", "{">> \o Q(Ktitle) \o <<":">> \o Q(TxtAb) \o <<",">>
  \o Q(Ksummary) \o <<":">> \o Q(<<"S", "m">>) \o <<",">>
  \o Q(Kkey_points) \o <<":", "[">> \o Q(<<"k", "p">>) \o <<"]", ",">>
  \o Q(Ksubtopics) \o <<":", "[", "{">> \o Q(Ktitle) \o <<":">> \o Q(<<"C", "d">>)
  \o <<"}", "]", "}", ",", "{">> \o Q(Ktitle) \o <<":">> \o Q(<<"E", "f">>) \o <<"}", "]">>

\* [{"title":"Beta (xy) beta.","summary":"alpha Beta"}]
TxtOutlineWords ==
  <<"[", "{">> \o Q(Ktitle) \o <<":">>
  \o Q(<<"B", "e", "t", "a", " ", "(", "x", "y", ")", " ", "b", "e", "t", "a", ".">>) \o <<",">>
  \o Q(Ksummary) \o <<":">> \o Q(<<"a", "l", "p", "h", "a", " ", "B", "e", "t", "a">>)
  \o <<"}", "]">>

\* [{"title":"Ab","explanation":"Ex"}]
TxtExplList ==
  <<"[", "{">> \o Q(Ktitle) \o <<":">> \o Q(TxtAb) \o <<",">>
  \o Q(Kexplanation) \o <<":">> \o Q(<<"E", "x">>) \o <<"}", "]">>

\* [{"title":" Ab ","explanation":"Ex"},{"title":"Cd"}]
TxtExplPadded ==
  <<"[", "{">> \o Q(Ktitle) \o <<":">> \o Q(<<" ", "A", "b", " ">>) \o <<",">>
  \o Q(Kexplanation) \o <<":">> \o Q(<<"E", "x">>) \o <<"}", ",", "{">>
  \o Q(Ktitle) \o <<":">> \o Q(<<"C", "d">>) \o <<"}", "]">>

\* Here: [{"title":"Ab","explanation":"Ex"}] done
TxtExplInProse == <<"H", "e", "r", "e", ":", " ">> \o TxtExplList \o <<" ", "d", "o", "n", "e">>

\* {"Ab":"Ex"}
TxtExplMap == <<"{">> \o Q(TxtAb) \o <<":">> \o Q(<<"E", "x">>) \o <<"}">>

\* {"thesis":"Th","bullets":["b1","b2"],"quiz":[]}
TxtMapSummary ==
  <<"{">> \o Q(Kthesis) \o <<":">> \o Q(<<"T", "h">>) \o <<",">>
  \o Q(Kbullets) \o <<":", "[">> \o Q(<<"b", "1">>) \o <<",">> \o Q(<<"b", "2">>) \o <<"]", ",">>
  \o Q(Kquiz) \o <<":", "[", "]", "}">>

\* {"thesis":null}
TxtThesisNull == <<"{">> \o Q(Kthesis) \o <<":">> \o LitNull \o <<"}">>

TxtEmptyList == <<"[", "]">>

TxtListOfNum == <<"[", "1", "]">>

TxtJsonString == Q(TxtAb)

TxtNumber == <<"5">>

\* [{"title":null}]
TxtTitleNull == <<"[", "{">> \o Q(Ktitle) \o <<":">> \o LitNull \o <<"}", "]">>

\* a response that itself starts with the sentinel prefix
TxtLooksLikeError == GEMINI_ERROR \o <<"x">>

\* ---- str(e) of the exception of a failed invocation

ErrPlain == <<"t", "i", "m", "e", "o", "u", "t">>

\* 400 {"a":1}
ErrWithObject == <<"4", "0", "0", " ", "{">> \o Q(<<"a">>) \o <<":", "1", "}">>

\* 429 [{"title":"Ab","explanation":"Ex"}]
ErrWithList == <<"4", "2", "9", " ">> \o TxtExplList

\* the exception texts tried at each call site, and on a direct call
DetailsAt(site) ==
  CASE site \in {"chunk", "title"}                -> {ErrPlain}
    [] site \in {"structure", "retry", "explain"} -> {ErrPlain, ErrWithList}
    [] site = "summary"                           -> {ErrPlain, ErrWithObject}
    [] site = "direct"                            -> {ErrPlain, ErrWithObject, ErrWithList}

\* the responses tried at each call site of the pipeline, and on a direct call
ResponsesAt(site) ==
  CASE site = "chunk"     -> {TxtTwoLines, TxtBlank}
    [] site = "title"     -> {TxtAb, TxtBlank, TxtLong}
    [] site = "structure" -> {TxtOutline, TxtOutlineWords, TxtAb, TxtMapSummary,
                              TxtEmptyList, TxtListOfNum, TxtTitleNull}
    [] site = "retry"     -> {TxtOutline, TxtAb, TxtMapSummary, TxtEmptyList,
                              TxtJsonString, TxtNumber}
    [] site = "summary"   -> {TxtMapSummary, TxtListOfNum, TxtThesisNull}
    [] site = "explain"   -> {TxtExplInProse, TxtExplPadded, TxtExplMap, TxtListOfNum,
                              TxtAb}
    [] site = "direct"    -> {TxtAb, TxtTwoLines, TxtBlank, TxtEmpty, TxtLooksLikeError}

\* ------------------------------------------------------------------- state

VARIABLES
  gw,        \* the running _call_gemini: status, site, retry, attempt, calls, result
  gwLog,     \* the outcome of each invocation of the model by the running call
  bst,       \* build_graph_from_hierarchy: idle | running | returned | raised
  bstack,    \* its recursion: a frame (items, idx, parent, level) per active call
  bexc,      \* the exception that ended it
  bcall,     \* the hierarchy argument of the latest top-level call, and the call count
  nodes,     \* the nodes list
  edges,     \* the edges list
  pc,        \* process_text_to_mindmap: where it stands
  args,      \* its arguments: text, chunk_threshold_chars, enable_map_summary
  loc,       \* its locals: text, chunks, summaries, prompt_text, root_title, structure
  meta,      \* the meta mapping
  exc,       \* the exception that escaped it
  requests,  \* the _call_gemini calls it has issued, in order
  qz,        \* generate_quiz_and_flashcards: its argument, position, model calls, result
  rp,        \* _safe_json_loads called directly: its argument and result
  ss         \* the web app: st.session_state and what the page shows

vars == <<gw, gwLog, bst, bstack, bexc, bcall, nodes, edges, pc, args, loc, meta, exc,
          requests, qz, rp, ss>>

gwVars == <<gw, gwLog>>

buildVars == <<bst, bstack, bexc, bcall, nodes, edges>>

pipeVars == <<pc, args, loc, meta, exc, requests>>

otherVars == <<qz, rp, ss>>

\* no call of generate_quiz_and_flashcards
QzIdle == [status |-> "idle", summary_text |-> <<>>, calls |-> 0, log |-> <<>>,
           flashcards |-> PyNone, quiz |-> PyNone, done |-> 0]

\* no direct call of _safe_json_loads
RpIdle == [status |-> "idle", prefix |-> <<>>, json |-> <<>>, suffix |-> <<>>,
           result |-> PyNone]

\* "smart_quiz_data" not in st.session_state; src is a history field: the
\* summary_text the stored cards were generated from
NoQuizData == [present |-> FALSE, src |-> <<>>, flashcards |-> PyNone, quiz |-> PyNone]

\* what a script run has put on the page: the companion column ("none" when
\* the run ended before it, "info" or "cards"), the flashcards in it, the
\* full-width quiz and its items, and the summaries those were generated from
NothingShown == [companion |-> "none", flashcards |-> PyNone, src |-> <<>>,
                 full |-> FALSE, quiz_items |-> PyNone, quiz_src |-> <<>>]

\* the session of the app before its first script run (app.py lines 12-16):
\* map_data None, map_meta {} (summary "" stands for a meta without summary)
SsIdle == [map_data |-> FALSE, map_summary |-> <<>>, smart_quiz_data |-> NoQuizData,
           show_quiz_full |-> FALSE, shown |-> NothingShown, runs |-> 0]

\* ------------------------------------------------- _call_gemini (Gateway)

GwIdle == [status |-> "idle", site |-> "none", retry |-> 0, attempt |-> 0,
           calls |-> 0, result |-> <<>>]

\* the call _call_gemini(prompt, retry) entered
GwCall(site, retry) == [status |-> "running", site |-> site, retry |-> retry,
                        attempt |-> 0, calls |-> 0, result |-> <<>>]

\* getattr(resp, "text", None) or str(resp)
TextOf(respText) == IF respText = <<>> THEN ReprOfResponse ELSE respText

\* the return value after a successful invocation
GwSuccessValue(respText) == Strip(TextOf(respText))

\* f"__GEMINI_ERROR__: {e}"
GwFailureValue(detail) == GEMINI_ERROR \o detail

\* a variant of the retry test that is off by one: attempt <= retry
GwRetriesOffByOne(attempt, retry) == attempt <= retry

\* whether a failed attempt is followed by another one
GwRetries(attempt, retry) == attempt < retry

\* MODEL.generate_content(prompt) answers: the call returns the stripped text
GwInvokeOk ==
  /\ gw.status = "running"
  /\ \E r \in ResponsesAt(gw.site) :
       /\ gw' = [gw EXCEPT !.status = "returned", !.calls = @ + 1,
                           !.result = GwSuccessValue(r)]
       /\ gwLog' = Append(gwLog, [ok |-> TRUE, text |-> r])
  /\ UNCHANGED <<buildVars, pipeVars, otherVars>>

\* MODEL.generate_content(prompt), or reading resp.text, raises: sleep and try
\* again while attempt < retry, else return the sentinel string
GwInvokeFail ==
  /\ gw.status = "running"
  /\ \E d \in DetailsAt(gw.site) :
       /\ gw' = IF GwRetries(gw.attempt, gw.retry)
                THEN [gw EXCEPT !.attempt = @ + 1, !.calls = @ + 1]
                ELSE [gw EXCEPT !.status = "returned", !.calls = @ + 1,
                                !.result = GwFailureValue(d)]
       /\ gwLog' = Append(gwLog, [ok |-> FALSE, text |-> d])
  /\ UNCHANGED <<buildVars, pipeVars, otherVars>>

\* ---- the texts _call_gemini can return here, and their repair

Sites == {"chunk", "title", "structure", "retry", "summary", "explain", "direct"}

GwResults ==
  UNION {{GwSuccessValue(r) : r \in ResponsesAt(site)}
         \cup {GwFailureValue(d) : d \in DetailsAt(site)} : site \in Sites}

\* _safe_json_loads over the texts _call_gemini can return, computed once
RepairTable == [s \in GwResults |-> SafeJsonLoads(s)]

Repaired(s) == RepairTable[s]

\* ------------------------------------------- _short_id and the node ids

DigitChars == <<"0", "1", "2", "3", "4", "5", "6", "7", "8", "9">>

\* str(n) for n >= 0
RECURSIVE DecStr(_)
DecStr(n) == IF n < 10 THEN <<DigitChars[n + 1]>>
             ELSE DecStr(n \div 10) \o <<DigitChars[(n % 10) + 1]>>

\* the values uuid.uuid4().hex[:8] is drawn from
HexPool == 1..NumHex

\* _short_id(prefix) with h drawn: f"{prefix}_{hex}"
ShortId(prefix, h) == [prefix |-> prefix, hex |-> h]

\* f"n{level}"
NPrefix(level) == <<"n">> \o DecStr(level)

RootPrefix == <<"r", "o", "o", "t">>

\* ------------------------------------------- build_graph_from_hierarchy

\* v[:n]: a str or a list is sliced, any other value raises
Sliceable(v) == v.t \in {"str", "list"}

SliceTo(v, n) == IF v.t = "str" THEN PyStr(Take(v.s, n)) ELSE PyList(Take(v.items, n))

\* len(v) of a str or a list
PyLen(v) == IF v.t = "str" THEN Len(v.s) ELSE Len(v.items)

\* for item in hierarchy: a list gives its items, a dict its keys, a str its
\* characters; any other value is not iterable
Iterable(v) == v.t \in {"list", "dict", "str"}

IterItems(v) ==
  CASE v.t = "list" -> v.items
    [] v.t = "dict" -> [i \in 1..Len(v.keys) |-> PyStr(v.keys[i])]
    [] v.t = "str"  -> [i \in 1..Len(v.s) |-> PyStr(<<v.s[i]>>)]

\* a variant that keeps the lists of the previous call, as the mutable
\* defaults nodes=[], edges=[] would
KeptLists(oldNodes, oldEdges) == [nodes |-> oldNodes, edges |-> oldEdges]

\* if nodes is None: nodes, edges = [], []
FreshLists(oldNodes, oldEdges) == [nodes |-> <<>>, edges |-> <<>>]

\* the exception, if any, that lines 143-147 raise on item ("": none)
ItemException(item) ==
  IF item.t # "dict" THEN "AttributeError"
  ELSE IF ~Sliceable(DictGet(item, Ktitle, PyStr(<<>>))) THEN "TypeError"
  ELSE IF ~Sliceable(DictGet(item, Ksummary, PyStr(<<>>))) THEN "TypeError"
  ELSE IF ~Sliceable(DictGet(item, Kkey_points, PyList(<<>>))) THEN "TypeError"
  ELSE ""

\* the node appended for item
NodeOf(item, node_id, level) ==
  [id |-> node_id,
   label |-> SliceTo(DictGet(item, Ktitle, PyStr(<<>>)), LabelMax),
   level |-> level,
   summary |-> SliceTo(DictGet(item, Ksummary, PyStr(<<>>)), SummaryMax),
   key_points |-> SliceTo(DictGet(item, Kkey_points, PyList(<<>>)), KeyPointsMax)]

\* if parent_id: (None is <<>>, an id is <<id>>)
HasParent(parent) == parent # <<>>

\* if isinstance(subtopics, list) and subtopics:
Recurses(subtopics) == subtopics.t = "list" /\ subtopics.items # <<>>

Frame(items, parent, level) == [items |-> items, idx |-> 1, parent |-> parent, level |-> level]

TopFrame == bstack[Len(bstack)]

\* build_graph_from_hierarchy(hierarchy) entered with the default arguments
BuildEnter(hierarchy) ==
  /\ nodes' = FreshLists(nodes, edges).nodes
  /\ edges' = FreshLists(nodes, edges).edges
  /\ bcall' = [hierarchy |-> hierarchy, count |-> bcall.count + 1]
  /\ IF Iterable(hierarchy)
     THEN /\ bst' = "running"
          /\ bstack' = <<Frame(IterItems(hierarchy), <<>>, 0)>>
          /\ bexc' = ""
     ELSE /\ bst' = "raised"
          /\ bstack' = <<>>
          /\ bexc' = "TypeError"

\* one turn of the for loop: the node, its edge, and the recursive call entered
BuildItem ==
  /\ bst = "running"
  /\ bstack # <<>>
  /\ TopFrame.idx <= Len(TopFrame.items)
  /\ \E h \in HexPool :
       LET f == TopFrame
           item == f.items[f.idx]
           node_id == ShortId(NPrefix(f.level), h)
           e == ItemException(item)
           subtopics == DictGet(item, Ksubtopics, PyList(<<>>))
           stepped == [bstack EXCEPT ![Len(bstack)].idx = @ + 1]
       IN  IF e # ""
           THEN /\ bst' = "raised"
                /\ bexc' = e
                /\ UNCHANGED <<bstack, nodes, edges>>
           ELSE /\ nodes' = Append(nodes, NodeOf(item, node_id, f.level))
                /\ edges' = IF HasParent(f.parent)
                            THEN Append(edges, [source |-> f.parent[1], target |-> node_id])
                            ELSE edges
                /\ bstack' = IF Recurses(subtopics)
                             THEN Append(stepped, Frame(subtopics.items, <<node_id>>, f.level + 1))
                             ELSE stepped
                /\ UNCHANGED <<bst, bexc>>
  /\ UNCHANGED <<bcall, gwVars, pipeVars, otherVars>>

\* the for loop of a call is over: return nodes, edges
BuildReturn ==
  /\ bst = "running"
  /\ bstack # <<>>
  /\ TopFrame.idx > Len(TopFrame.items)
  /\ bstack' = SubSeq(bstack, 1, Len(bstack) - 1)
  /\ bst' = IF Len(bstack) = 1 THEN "returned" ELSE "running"
  /\ UNCHANGED <<bexc, bcall, nodes, edges, gwVars, pipeVars, otherVars>>

\* ------------------------------------------- the enrichment stages, as values

IsStr(v) == v.t = "str"

\* "\n".join(v): the strings joined, or no result when v is not an iterable of
\* strings (TypeError)
Joinable(v) ==
  \/ v.t = "list" /\ \A i \in 1..Len(v.items) : IsStr(v.items[i])
  \/ v.t \in {"str", "dict"}

JoinItems(v) ==
  CASE v.t = "list" -> [i \in 1..Len(v.items) |-> v.items[i].s]
    [] v.t = "dict" -> v.keys
    [] v.t = "str"  -> [i \in 1..Len(v.s) |-> <<v.s[i]>>]

\* lines 221-223, given the parsed response: the exception caught ("": none)
SummaryException(parsed_map) ==
  IF ~Truthy(parsed_map) THEN ""
  ELSE IF parsed_map.t # "dict" THEN "AttributeError"
  ELSE IF ~IsStr(DictGet(parsed_map, Kthesis, PyStr(<<>>))) THEN "TypeError"
  ELSE IF ~Joinable(DictGet(parsed_map, Kbullets, PyList(<<>>))) THEN "TypeError"
  ELSE ""

\* meta after the summary+quiz stage (lines 220-225), given the text
\* _call_gemini returned
SummaryStage(m, raw_map) ==
  LET parsed_map == Repaired(raw_map)
      e == SummaryException(parsed_map)
  IN  IF e # "" THEN ("summary_error" :> e) @@ m
      ELSE IF ~Truthy(parsed_map) THEN m
      ELSE ("summary" :> (DictGet(parsed_map, Kthesis, PyStr(<<>>)).s \o <<NL, NL>>
                          \o Join(<<NL>>, JoinItems(DictGet(parsed_map, Kbullets, PyList(<<>>)))))
            @@ "quiz" :> DictGet(parsed_map, Kquiz, PyList(<<>>))) @@ m

\* n.get("label", "").strip() raises for a label that is not a string
LabelsAreStrings(ns) == \A i \in 1..Len(ns) : IsStr(ns[i].label)

\* the sub-sequence of the elements of q that satisfy Keep
RECURSIVE SelectIdx(_, _)
SelectIdx(q, keep) ==
  IF q = <<>> THEN <<>>
  ELSE (IF 1 \in keep THEN <<q[1]>> ELSE <<>>)
       \o SelectIdx(Tail(q), {i - 1 : i \in keep \ {1}})

\* titles = [n.get("label", "").strip() for n in nodes if n.get("label", "").strip()]
Titles(ns) ==
  LET stripped == [i \in 1..Len(ns) |-> Strip(ns[i].label.s)]
  IN  SelectIdx(stripped, {i \in 1..Len(ns) : stripped[i] # <<>>})

\* (i.get("title") or "").strip() raises for a truthy title that is not a string
ExplItemOk(i) ==
  /\ i.t = "dict"
  /\ LET t == DictGet(i, Ktitle, PyNone) IN Truthy(t) => IsStr(t)

\* lines 239-246, given the parsed response: the exception caught ("": none)
MappingException(parsed) ==
  IF parsed.t = "list" /\ \E k \in 1..Len(parsed.items) : ~ExplItemOk(parsed.items[k])
  THEN "AttributeError"
  ELSE ""

\* a variant that keys the mapping by the title as given: i.get("title") or ""
RECURSIVE MappingOfListRaw(_, _)
MappingOfListRaw(items, acc) ==
  IF items = <<>> THEN acc
  ELSE LET i == items[1]
           t == DictGet(i, Ktitle, PyNone)
           k == IF Truthy(t) THEN t.s ELSE <<>>
           ex == DictGet(i, Kexplanation, PyNone)
       IN  MappingOfListRaw(Tail(items), DictSet(acc, k, IF Truthy(ex) THEN ex ELSE PyStr(<<>>)))

RECURSIVE MappingOfList(_, _)
MappingOfList(items, acc) ==
  IF items = <<>> THEN acc
  ELSE LET i == items[1]
           t == DictGet(i, Ktitle, PyNone)
           k == Strip(IF Truthy(t) THEN t.s ELSE <<>>)
           ex == DictGet(i, Kexplanation, PyNone)
       IN  MappingOfList(Tail(items), DictSet(acc, k, IF Truthy(ex) THEN ex ELSE PyStr(<<>>)))

RECURSIVE MappingOfDict(_, _, _)
MappingOfDict(ks, vs, acc) ==
  IF ks = <<>> THEN acc
  ELSE MappingOfDict(Tail(ks), Tail(vs), DictSet(acc, Strip(ks[1]), vs[1]))

\* the title -> explanation mapping of lines 239-246
MappingOf(parsed) ==
  CASE parsed.t = "list" -> MappingOfList(parsed.items, EmptyDict)
    [] parsed.t = "dict" -> MappingOfDict(parsed.keys, parsed.vals, EmptyDict)
    [] OTHER -> EmptyDict

WithExplanation(n, v) == ("ai_explanation" :> v) @@ n

\* for n in nodes: n["ai_explanation"] = mapping.get(lbl, "No explanation available.")
AssignExplanations(ns, mapping) ==
  [i \in 1..Len(ns) |->
     WithExplanation(ns[i], DictGet(mapping, Strip(ns[i].label.s), PyStr(NoExplanation)))]

AssignAll(ns, text) == [i \in 1..Len(ns) |-> WithExplanation(ns[i], PyStr(text))]

\* ---- keyword extraction

UpperChars == <<"A", "B", "C", "D", "E", "F", "G", "H", "I", "J", "K", "L", "M",
                "N", "O", "P", "Q", "R", "S", "T", "U", "V", "W", "X", "Y", "Z">>

LowerChars == <<"a", "b", "c", "d", "e", "f", "g", "h", "i", "j", "k", "l", "m",
                "n", "o", "p", "q", "r", "s", "t", "u", "v", "w", "x", "y", "z">>

LowerChar(c) ==
  IF \E i \in 1..26 : UpperChars[i] = c
  THEN LowerChars[CHOOSE i \in 1..26 : UpperChars[i] = c]
  ELSE c

\* str.lower()
Lower(w) == [i \in 1..Len(w) |-> LowerChar(w[i])]

\* ".,:;()[]"
Punctuation == {".", ",", ":", ";", "(", ")", "[", "]"}

\* str.strip(chars)
StripChars(s, chars) ==
  LET keep == {i \in 1..Len(s) : s[i] \notin chars}
  IN  IF keep = {} THEN <<>>
      ELSE LET lo == CHOOSE i \in keep : \A j \in keep : i <= j
               hi == CHOOSE i \in keep : \A j \in keep : j <= i
           IN  SubSeq(s, lo, hi)

\* str.split(): the maximal runs without whitespace
RECURSIVE SplitWords(_)
SplitWords(s) ==
  LET a == SkipWs(s, 1)
  IN  IF a > Len(s) THEN <<>>
      ELSE LET ws == {j \in a..Len(s) : s[j] \in Whitespace}
               b == IF ws = {} THEN Len(s) + 1 ELSE CHOOSE j \in ws : \A k \in ws : j <= k
           IN  <<SubSeq(s, a, b - 1)>> \o SplitWords(SubSeq(s, b, Len(s)))

\* [w.lower().strip(".,:;()[]") for w in text_pool.split() if len(w) > 3]
KeywordWords(text_pool) ==
  LET ws == SplitWords(text_pool)
      long == SelectIdx(ws, {i \in 1..Len(ws) : Len(ws[i]) > MinWordLen})
  IN  [i \in 1..Len(long) |-> StripChars(Lower(long[i]), Punctuation)]

CountOf(w, words) == Cardinality({i \in 1..Len(words) : words[i] = w})

\* the distinct words in first-encountered order
FirstSeen(words) ==
  SelectIdx(words, {i \in 1..Len(words) : \A j \in 1..(i - 1) : words[j] # words[i]})

\* the words of q by descending count, ties in the order of q
RECURSIVE ByCount(_, _)
ByCount(q, words) ==
  IF q = <<>> THEN <<>>
  ELSE LET best == CHOOSE i \in 1..Len(q) :
                     /\ \A j \in 1..Len(q) : CountOf(q[j], words) <= CountOf(q[i], words)
                     /\ \A j \in 1..(i - 1) : CountOf(q[j], words) < CountOf(q[i], words)
       IN  <<q[best]>> \o ByCount(SelectIdx(q, (1..Len(q)) \ {best}), words)

\* [w for w, _ in Counter(words).most_common(n)]
MostCommon(words, n) == Take(ByCount(FirstSeen(words), words), n)

\* lines 260-266: meta["keywords"]
Keywords(ns) ==
  IF \E i \in 1..Len(ns) : ~IsStr(ns[i].label) \/ ~IsStr(ns[i].summary)
  THEN <<>>
  ELSE LET text_pool == Join(<<" ">>, [i \in 1..Len(ns) |->
                                         ns[i].label.s \o <<" ">> \o ns[i].summary.s])
       IN  MostCommon(KeywordWords(text_pool), MaxKeywords)

\* ------------------------------------------------ process_text_to_mindmap

NoLocals == [text |-> <<>>, chunks |-> <<>>, summaries |-> <<>>, prompt_text |-> <<>>,
             root_title |-> <<>>, structure |-> PyNone]

\* a variant without the strip: text or ""
CleanTextNoStrip(t) == IF t.none THEN <<>> ELSE t.s

\* (text or "").strip()
CleanText(t) == Strip(IF t.none THEN <<>> ELSE t.s)

\* a variant that keeps the whole chunks only: range(0, len(text) - n + 1, n)
ChunksWholeOnly(text, n) ==
  [k \in 1..(Len(text) \div n) |-> Slice(text, (k - 1) * n, k * n)]

\* [text[i:i + n] for i in range(0, len(text), n)]
Chunks(text, n) ==
  [k \in 1..((Len(text) + n - 1) \div n) |-> Slice(text, (k - 1) * n, k * n)]

\* a variant that retries on a falsy result only: if not structure:
NeedsRetryOnlyFalsy(structure) == ~Truthy(structure)

\* if not structure or not isinstance(structure, list):
NeedsRetry(structure) == ~Truthy(structure) \/ structure.t # "list"

\* if not structure:
TakesFallback(structure) == ~Truthy(structure)

\* root_title or "Main Topic"
FallbackLabel(root_title) == IF root_title = <<>> THEN MainTopic ELSE root_title

\* the node of the degenerate graph
FallbackNode(root_id, root_title, text) ==
  [id |-> root_id, label |-> PyStr(FallbackLabel(root_title)), level |-> 0,
   summary |-> PyStr(Take(text, FallbackNodeSummaryMax))]

\* a variant that cuts meta.summary like the node's summary
FallbackMetaNodeCut(text) ==
  [summary |-> Take(text, FallbackNodeSummaryMax), warning |-> "parse_failed"]

FallbackMeta(text) == [summary |-> Take(text, FallbackSummaryMax), warning |-> "parse_failed"]

EmptyInputMeta == [summary |-> <<>>, error |-> "no_text"]

\* _call_gemini(prompt) entered at a call site; arg is the text put in the prompt
Issue(site, arg) ==
  /\ gw' = GwCall(site, DefaultRetry)
  /\ gwLog' = <<>>
  /\ requests' = Append(requests, [site |-> site, arg |-> arg])

NoIssue ==
  /\ gw' = GwIdle
  /\ gwLog' = <<>>
  /\ UNCHANGED requests

Raise(e) ==
  /\ pc' = "raised"
  /\ exc' = e
  /\ NoIssue

\* the explanation stage is over: on to the keyword stage
Finish(ns, m) ==
  /\ nodes' = ns
  /\ meta' = m
  /\ pc' = "keywords"
  /\ NoIssue

\* lines 228-236 and 251-257: up to the batched call, or through the stage when
\* no call is made
EnterExplain(m) ==
  IF ~LabelsAreStrings(nodes)
  THEN Finish(AssignAll(nodes, ExplanationUnavailable), ("tooltip_error" :> "AttributeError") @@ m)
  ELSE IF Titles(nodes) # <<>>
  THEN /\ pc' = "explain"
       /\ meta' = m
       /\ Issue("explain", Join(<<NL>>, Titles(nodes)))
       /\ UNCHANGED nodes
  ELSE Finish(AssignAll(nodes, NoExplanation), m)

\* line 211: build_graph_from_hierarchy(structure)
EnterBuild(structure) ==
  /\ pc' = "build"
  /\ loc' = [loc EXCEPT !.structure = structure]
  /\ BuildEnter(structure)
  /\ NoIssue
  /\ UNCHANGED <<meta, exc>>

\* lines 176-190 and the call of line 194, or of line 186 for the first chunk
PipeStart ==
  /\ pc = "start"
  /\ LET text == CleanText(args.text)
         n == args.chunk_threshold_chars
     IN  IF text = <<>>
         THEN /\ nodes' = <<>>
              /\ edges' = <<>>
              /\ meta' = EmptyInputMeta
              /\ pc' = "returned"
              /\ NoIssue
              /\ UNCHANGED <<loc, exc>>
         ELSE IF Len(text) > n
         THEN /\ loc' = [loc EXCEPT !.text = text, !.chunks = Chunks(text, n)]
              /\ pc' = "chunks"
              /\ Issue("chunk", Chunks(text, n)[1])
              /\ UNCHANGED <<nodes, edges, meta, exc>>
         ELSE /\ loc' = [loc EXCEPT !.text = text, !.prompt_text = text]
              /\ pc' = "title"
              /\ Issue("title", text)
              /\ UNCHANGED <<nodes, edges, meta, exc>>
  /\ UNCHANGED <<otherVars, args, bst, bstack, bexc, bcall>>

\* line 187 for one chunk, then the next chunk's call or lines 188-194
PipeChunk ==
  /\ pc = "chunks"
  /\ gw.status = "returned"
  /\ LET lines == SplitLines(gw.result)
     IN  IF lines = <<>>
         THEN Raise("IndexError") /\ UNCHANGED loc
         ELSE LET sums == Append(loc.summaries, Strip(lines[1]))
              IN  IF Len(sums) < Len(loc.chunks)
                  THEN /\ loc' = [loc EXCEPT !.summaries = sums]
                       /\ Issue("chunk", loc.chunks[Len(sums) + 1])
                       /\ UNCHANGED <<pc, exc>>
                  ELSE /\ loc' = [loc EXCEPT !.summaries = sums,
                                             !.prompt_text = Join(<<NL>>, sums)]
                       /\ pc' = "title"
                       /\ Issue("title", Join(<<NL>>, sums))
                       /\ UNCHANGED exc
  /\ UNCHANGED <<otherVars, args, meta, buildVars>>

\* line 194 after the call, then the call of line 198
PipeTitle ==
  /\ pc = "title"
  /\ gw.status = "returned"
  /\ LET lines == SplitLines(gw.result)
     IN  IF lines = <<>>
         THEN Raise("IndexError") /\ UNCHANGED loc
         ELSE /\ loc' = [loc EXCEPT !.root_title = Strip(lines[1])]
              /\ pc' = "structure"
              /\ Issue("structure", loc.prompt_text)
              /\ UNCHANGED exc
  /\ UNCHANGED <<otherVars, args, meta, buildVars>>

\* lines 199-203: the first repair, then the retry call or the build
PipeStructure ==
  /\ pc = "structure"
  /\ gw.status = "returned"
  /\ \E structure \in {Repaired(gw.result)} :
         IF NeedsRetry(structure)
         THEN /\ loc' = [loc EXCEPT !.structure = structure]
              /\ pc' = "retry"
              /\ Issue("retry", loc.prompt_text)
              /\ UNCHANGED <<meta, exc, buildVars>>
         ELSE EnterBuild(structure) /\ UNCHANGED requests
  /\ UNCHANGED <<otherVars, args>>

\* lines 203-211: the second repair, then the degenerate graph or the build
PipeRetry ==
  /\ pc = "retry"
  /\ gw.status = "returned"
  /\ \E structure \in {Repaired(gw.result)} :
         IF TakesFallback(structure)
         THEN \E h \in HexPool :
                /\ nodes' = <<FallbackNode(ShortId(RootPrefix, h), loc.root_title, loc.text)>>
                /\ edges' = <<>>
                /\ meta' = FallbackMeta(loc.text)
                /\ loc' = [loc EXCEPT !.structure = structure]
                /\ pc' = "returned"
                /\ NoIssue
                /\ UNCHANGED <<exc, bst, bstack, bexc, bcall>>
         ELSE EnterBuild(structure) /\ UNCHANGED requests
  /\ UNCHANGED <<otherVars, args>>

\* the exception of the builder leaves process_text_to_mindmap: line 211 is in no try
PipeBuildRaised ==
  /\ pc = "build"
  /\ bst = "raised"
  /\ Raise(bexc)
  /\ UNCHANGED <<otherVars, args, loc, meta, buildVars>>

\* lines 212-219, and the explanation stage up to its call when the summary
\* stage is disabled
PipeBuilt ==
  /\ pc = "build"
  /\ bst = "returned"
  /\ LET m == [n_nodes |-> Len(nodes)]
     IN  IF args.enable_map_summary
         THEN /\ meta' = m
              /\ pc' = "summary"
              /\ Issue("summary", <<>>)
              /\ UNCHANGED nodes
         ELSE EnterExplain(m)
  /\ UNCHANGED <<otherVars, args, loc, exc, bst, bstack, bexc, bcall, edges>>

\* lines 220-225, then the explanation stage up to its call
PipeSummary ==
  /\ pc = "summary"
  /\ gw.status = "returned"
  /\ \E m \in {SummaryStage(meta, gw.result)} : EnterExplain(m)
  /\ UNCHANGED <<otherVars, args, loc, exc, bst, bstack, bexc, bcall, edges>>

\* lines 237-257 after the batched call
PipeExplain ==
  /\ pc = "explain"
  /\ gw.status = "returned"
  /\ \E parsed \in {Repaired(gw.result)} :
       IF MappingException(parsed) # ""
       THEN Finish(AssignAll(nodes, ExplanationUnavailable),
                   ("tooltip_error" :> MappingException(parsed)) @@ meta)
       ELSE Finish(AssignExplanations(nodes, MappingOf(parsed)), meta)
  /\ UNCHANGED <<otherVars, args, loc, exc, bst, bstack, bexc, bcall, edges>>

\* lines 259-268: the keyword stage and the return
PipeKeywords ==
  /\ pc = "keywords"
  /\ meta' = ("keywords" :> Keywords(nodes)) @@ meta
  /\ pc' = "returned"
  /\ UNCHANGED <<otherVars, args, loc, exc, nodes, edges, bst, bstack, bexc, bcall, gwVars, requests>>

\* ------------------------------------------------------------ the inputs

InShort == <<" ", "A", "b", " ">>

InLong == <<"A", "b", "c", "d", "e">>

InBlank == <<" ", "\n", " ">>

\* a space, then more characters than meta.summary keeps
InHuge == <<" ">> \o Rep("a", FallbackSummaryMax + 1)

TextArg(s) == [none |-> FALSE, s |-> s]

NoTextArg == [none |-> TRUE, s |-> <<>>]

CallArgs(text, n, enable) ==
  [text |-> text, chunk_threshold_chars |-> n, enable_map_summary |-> enable]

\* the calls of process_text_to_mindmap tried: a missing, an empty and a blank
\* text, a short text with the defaults, and a text longer than the threshold
\* passed and a text longer than meta.summary keeps, with the summary stage
\* disabled
InputArgs ==
  {CallArgs(NoTextArg, DefaultThreshold, TRUE),
   CallArgs(TextArg(<<>>), DefaultThreshold, TRUE),
   CallArgs(TextArg(InBlank), DefaultThreshold, TRUE),
   CallArgs(TextArg(InShort), DefaultThreshold, TRUE),
   CallArgs(TextArg(InLong), SmallThreshold, FALSE),
   CallArgs(TextArg(InHuge), DefaultThreshold, FALSE)}

\* ---- outlines handed to build_graph_from_hierarchy directly

Leaf(title) == PyDict(<<Ktitle>>, <<PyStr(title)>>)

Item(title, kids) == PyDict(<<Ktitle, Ksubtopics>>, <<PyStr(title), PyList(kids)>>)

FullItem(title, summary, kps, kids) ==
  PyDict(<<Ktitle, Ksummary, Kkey_points, Ksubtopics>>,
         <<PyStr(title), PyStr(summary), PyList(kps), PyList(kids)>>)

\* d items nested one in the other
RECURSIVE Chain(_)
Chain(d) == IF d <= 1 THEN Leaf(<<"c">>) ELSE Item(<<"c">>, <<Chain(d - 1)>>)

\* w leaves side by side
Wide(w) == [i \in 1..w |-> Leaf(<<"w">>)]

WellFormedOutlines ==
  {PyList(<<Chain(d)>>) : d \in 1..MaxDepth}
  \cup {PyList(Wide(w)) : w \in 0..MaxWidth}
  \cup {PyList(<<Item(<<"a">>, Wide(w))>> \o Wide(v)) : w \in 1..MaxWidth, v \in 0..1}
  \cup {PyList(<<FullItem(Rep("a", LabelMax + 1), Rep("s", SummaryMax + 1),
                          Rep(PyStr(<<"k">>), KeyPointsMax + 1), <<>>)>>),
        PyList(<<PyDict(<<Ksubtopics>>, <<PyList(<<Leaf(<<"b">>)>>)>>)>>)}

\* a field absent, null or of the wrong type; an item that is no mapping
MalformedOutlines ==
  {PyList(<<PyDict(<<Ktitle>>, <<PyNone>>)>>),
   PyList(<<PyDict(<<Ktitle>>, <<PyNum(7)>>)>>),
   PyList(<<PyDict(<<Ktitle>>, <<PyList(<<PyStr(<<"a">>)>>)>>)>>),
   PyList(<<PyDict(<<Ktitle, Ksummary>>, <<PyStr(<<"a">>), PyNone>>)>>),
   PyList(<<PyDict(<<Ktitle, Kkey_points>>, <<PyStr(<<"a">>), PyNone>>)>>),
   PyList(<<PyDict(<<Ktitle, Kkey_points>>, <<PyStr(<<"a">>), PyStr(Rep("k", KeyPointsMax + 1))>>)>>),
   PyList(<<PyDict(<<Ktitle, Ksubtopics>>, <<PyStr(<<"a">>), PyNone>>)>>),
   PyList(<<PyDict(<<Ktitle, Ksubtopics>>, <<PyStr(<<"a">>), PyStr(<<"x">>)>>)>>),
   PyList(<<Leaf(<<"a">>), PyStr(<<"x">>)>>),
   PyList(<<Item(<<"a">>, <<PyNum(1)>>), Leaf(<<"b">>)>>)}

BuildOutlines == WellFormedOutlines \cup MalformedOutlines

\* a caller calls build_graph_from_hierarchy(outline)
BuildCall ==
  /\ bst \in {"idle", "returned", "raised"}
  /\ bcall.count < MaxBuildCalls
  /\ \E o \in BuildOutlines : BuildEnter(o)
  /\ UNCHANGED <<gwVars, pipeVars, otherVars>>

\* --------------------------------------------------------- specifications

InitCommon ==
  /\ gw = GwIdle
  /\ gwLog = <<>>
  /\ bst = "idle"
  /\ bstack = <<>>
  /\ bexc = ""
  /\ bcall = [hierarchy |-> PyNone, count |-> 0]
  /\ nodes = <<>>
  /\ edges = <<>>
  /\ pc = "idle"
  /\ args = CallArgs(NoTextArg, DefaultThreshold, TRUE)
  /\ loc = NoLocals
  /\ meta = <<>>
  /\ exc = ""
  /\ requests = <<>>
  /\ qz = QzIdle
  /\ rp = RpIdle
  /\ ss = SsIdle

\* process_text_to_mindmap(text, chunk_threshold_chars, enable_map_summary) is called
Init ==
  /\ gw = GwIdle
  /\ gwLog = <<>>
  /\ bst = "idle"
  /\ bstack = <<>>
  /\ bexc = ""
  /\ bcall = [hierarchy |-> PyNone, count |-> 0]
  /\ nodes = <<>>
  /\ edges = <<>>
  /\ pc = "start"
  /\ args \in InputArgs
  /\ loc = NoLocals
  /\ meta = <<>>
  /\ exc = ""
  /\ requests = <<>>
  /\ qz = QzIdle
  /\ rp = RpIdle
  /\ ss = SsIdle

Next ==
  \/ PipeStart
  \/ PipeChunk
  \/ PipeTitle
  \/ PipeStructure
  \/ PipeRetry
  \/ PipeBuildRaised
  \/ PipeBuilt
  \/ PipeSummary
  \/ PipeExplain
  \/ PipeKeywords
  \/ BuildItem
  \/ BuildReturn
  \/ GwInvokeOk
  \/ GwInvokeFail

Spec == Init /\ [][Next]_vars

\* _call_gemini(prompt, retry) is called directly, with any retry in 0..MaxRetry
InitGateway ==
  /\ \E r \in 0..MaxRetry : gw = GwCall("direct", r)
  /\ gwLog = <<>>
  /\ bst = "idle"
  /\ bstack = <<>>
  /\ bexc = ""
  /\ bcall = [hierarchy |-> PyNone, count |-> 0]
  /\ nodes = <<>>
  /\ edges = <<>>
  /\ pc = "idle"
  /\ args = CallArgs(NoTextArg, DefaultThreshold, TRUE)
  /\ loc = NoLocals
  /\ meta = <<>>
  /\ exc = ""
  /\ requests = <<>>
  /\ qz = QzIdle
  /\ rp = RpIdle
  /\ ss = SsIdle

NextGateway == GwInvokeOk \/ GwInvokeFail

SpecGateway == InitGateway /\ [][NextGateway]_vars

\* build_graph_from_hierarchy(outline) is called directly, several times in a row
InitBuild == InitCommon

NextBuild == BuildCall \/ BuildItem \/ BuildReturn

SpecBuild == InitBuild /\ [][NextBuild]_vars

\* ------------------------- generate_quiz_and_flashcards (modules/copilot.py)
\* the definition of lines 147-178, which replaces the one of lines 101-132

Kflashcards == <<"f", "l", "a", "s", "h", "c", "a", "r", "d", "s">>

\* {"flashcards":[{"q":"F1"}],"quiz":[{"q":"Q1"}]}
QuizTxtFull ==
  <<"{">> \o Q(Kflashcards) \o <<":", "[", "{">> \o Q(<<"q">>) \o <<":">> \o Q(<<"F", "1">>)
  \o <<"}", "]", ",">> \o Q(Kquiz) \o <<":", "[", "{">> \o Q(<<"q">>) \o <<":">>
  \o Q(<<"Q", "1">>) \o <<"}", "]", "}">>

\* Sure: {"flashcards":[...],"quiz":[...]}
QuizTxtInProse == <<"S", "u", "r", "e", ":", " ">> \o QuizTxtFull

\* {"quiz":[{"q":"Q2"}]}
QuizTxtQuizOnly ==
  <<"{">> \o Q(Kquiz) \o <<":", "[", "{">> \o Q(<<"q">>) \o <<":">> \o Q(<<"Q", "2">>)
  \o <<"}", "]", "}">>

\* {x}
QuizTxtBroken == <<"{", "x", "}">>

\* the texts of the model's responses to the quiz prompt
QuizResponses == {QuizTxtFull, QuizTxtInProse, QuizTxtQuizOnly, QuizTxtBroken,
                  TxtListOfNum, TxtAb}

\* str(e) of the exceptions of model.generate_content and of response.text
QuizErrors == {ErrPlain}

\* the summaries the function is called with
SumThesis == <<"T", "h", "\n", "\n", "b", "1">>

QuizSummaries == {TxtEmpty, TxtBlank, TxtAb, SumThesis}

\* a variant that tests the summary without the strip
QuizSkipsUnstripped(summary_text) == summary_text = <<>>

\* if not summary_text.strip():
QuizSkips(summary_text) == Strip(summary_text) = <<>>

NoCards == <<PyList(<<>>), PyList(<<>>)>>

\* lines 172-178 given response.text: the pair returned, ([], []) when no span
\* matches and on any exception
QuizOutcome(text) ==
  LET m == RegexSpan(text)
  IN  IF m = <<>> THEN NoCards
      ELSE LET data == JsonLoads(m)
           IN  IF ~data.ok \/ data.v.t # "dict" THEN NoCards
               ELSE <<DictGet(data.v, Kflashcards, PyList(<<>>)),
                      DictGet(data.v, Kquiz, PyList(<<>>))>>

QuizReturn(q, pair) == [q EXCEPT !.status = "returned", !.flashcards = pair[1],
                                 !.quiz = pair[2], !.done = @ + 1]

\* generate_quiz_and_flashcards(summary_text) entered: lines 152-168
QuizEnter(q, summary_text) ==
  IF QuizSkips(summary_text)
  THEN QuizReturn([q EXCEPT !.summary_text = summary_text, !.calls = 0], NoCards)
  ELSE [q EXCEPT !.status = "calling", !.summary_text = summary_text, !.calls = 0,
                 !.flashcards = PyNone, !.quiz = PyNone]

\* lines 170-176: the model answers
QuizAnswered(q, text) ==
  QuizReturn([q EXCEPT !.calls = @ + 1, !.log = Append(@, [ok |-> TRUE, text |-> text])],
             QuizOutcome(text))

\* lines 177-178: model.generate_content or response.text raises
QuizFailed(q, detail) ==
  QuizReturn([q EXCEPT !.calls = @ + 1, !.log = Append(@, [ok |-> FALSE, text |-> detail])],
             NoCards)

\* a caller calls generate_quiz_and_flashcards(summary_text)
QuizCall ==
  /\ qz.status \in {"idle", "returned"}
  /\ qz.done < MaxQuizCalls
  /\ \E s \in QuizSummaries : qz' = QuizEnter(qz, s)
  /\ UNCHANGED <<gwVars, buildVars, pipeVars, rp, ss>>

QuizModelOk ==
  /\ qz.status = "calling"
  /\ \E r \in QuizResponses : qz' = QuizAnswered(qz, r)
  /\ UNCHANGED <<gwVars, buildVars, pipeVars, rp, ss>>

QuizModelFail ==
  /\ qz.status = "calling"
  /\ \E d \in QuizErrors : qz' = QuizFailed(qz, d)
  /\ UNCHANGED <<gwVars, buildVars, pipeVars, rp, ss>>

InitQuiz == InitCommon

NextQuiz == QuizCall \/ QuizModelOk \/ QuizModelFail

SpecQuiz == InitQuiz /\ [][NextQuiz]_vars

\* ----------------------------------------- _safe_json_loads called directly

\* [{"a":[1]}]
TxtNested == <<"[", "{">> \o Q(<<"a">>) \o <<":", "[", "1", "]", "}", "]">>

\* {"a":1}
TxtObject == <<"{">> \o Q(<<"a">>) \o <<":", "1", "}">>

\* [1,]
TxtTrailingComma == <<"[", "1", ",", "]">>

\* JSON objects and arrays, each with the value it denotes
JsonCases ==
  {[text |-> TxtListOfNum, value |-> PyList(<<PyNum(1)>>)],
   [text |-> TxtEmptyList, value |-> PyList(<<>>)],
   [text |-> TxtObject, value |-> PyDict(<<<<"a">>>>, <<PyNum(1)>>)],
   [text |-> TxtNested,
    value |-> PyList(<<PyDict(<<<<"a">>>>, <<PyList(<<PyNum(1)>>)>>)>>)],
   [text |-> TxtExplList,
    value |-> PyList(<<PyDict(<<Ktitle, Kexplanation>>, <<PyStr(TxtAb), PyStr(<<"E", "x">>)>>)>>)],
   [text |-> TxtOutline,
    value |-> PyList(<<FullItem(TxtAb, <<"S", "m">>, <<PyStr(<<"k", "p">>)>>,
                                <<Leaf(<<"C", "d">>)>>),
                       Leaf(<<"E", "f">>)>>)]}

ValidJson == {c.text : c \in JsonCases}

\* texts that hold no JSON value
BrokenJson == {QuizTxtBroken, TxtTrailingComma, TxtAb}

\* prose around the JSON text: no brace and no bracket in it
Prefixes == {<<>>, <<"H", "e", "r", "e", ":", " ">>, <<" ", "\n">>, <<"1", " ">>, <<"\"">>}

Suffixes == {<<>>, <<" ", "d", "o", "n", "e">>, <<"\n">>, <<"\"">>}

\* _safe_json_loads(prefix + json + suffix) is called
InitRepair ==
  /\ gw = GwIdle
  /\ gwLog = <<>>
  /\ bst = "idle"
  /\ bstack = <<>>
  /\ bexc = ""
  /\ bcall = [hierarchy |-> PyNone, count |-> 0]
  /\ nodes = <<>>
  /\ edges = <<>>
  /\ pc = "idle"
  /\ args = CallArgs(NoTextArg, DefaultThreshold, TRUE)
  /\ loc = NoLocals
  /\ meta = <<>>
  /\ exc = ""
  /\ requests = <<>>
  /\ qz = QzIdle
  /\ \E p \in Prefixes, j \in ValidJson \cup BrokenJson, x \in Suffixes :
       rp = [status |-> "called", prefix |-> p, json |-> j, suffix |-> x, result |-> PyNone]
  /\ ss = SsIdle

\* it returns: no path of lines 40-52 lets an exception out for a str argument
RepairReturn ==
  /\ rp.status = "called"
  /\ rp' = [rp EXCEPT !.status = "returned",
                      !.result = SafeJsonLoads(rp.prefix \o rp.json \o rp.suffix)]
  /\ UNCHANGED <<gwVars, buildVars, pipeVars, qz, ss>>

NextRepair == RepairReturn

SpecRepair == InitRepair /\ [][NextRepair]_vars

\* ------------------------------------------------------- the app (app.py)
\* one action is one user event: the script run it triggers, with the rerun
\* that st.rerun() starts

\* the texts in the text area when Generate is pressed
AppTexts == {TxtBlank, TxtAb, TxtTwoLines}

\* what process_text_to_mindmap gives the app: an exception, or a result whose
\* meta.summary is among QuizSummaries ("" for a meta without summary)
MapOutcomes ==
  {[raised |-> TRUE, summary |-> <<>>]}
  \cup {[raised |-> FALSE, summary |-> m] : m \in QuizSummaries}

\* the pairs generate_quiz_and_flashcards(summary_text) can return
QuizPairs(summary_text) ==
  IF QuizSkips(summary_text) THEN {NoCards}
  ELSE {QuizOutcome(r) : r \in QuizResponses} \cup {NoCards}

\* x or []
OrEmptyList(x) == IF Truthy(x) THEN x ELSE PyList(<<>>)

\* a script run starts: nothing is on the page yet
Top(s) == [s EXCEPT !.runs = @ + 1, !.shown = NothingShown]

\* lines 135-155: the companion column; pair is what the generator returns
\* when it is called
Companion(s, pair) ==
  IF s.map_summary = <<>>
  THEN [s EXCEPT !.shown.companion = "info"]
  ELSE LET d == IF s.smart_quiz_data.present THEN s.smart_quiz_data
                ELSE [present |-> TRUE, src |-> s.map_summary,
                      flashcards |-> OrEmptyList(pair[1]), quiz |-> OrEmptyList(pair[2])]
       IN  [s EXCEPT !.smart_quiz_data = d, !.shown.companion = "cards",
                     !.shown.flashcards = d.flashcards, !.shown.src = d.src]

\* lines 251-256: the full-width quiz
FullQuiz(s) ==
  IF s.show_quiz_full
  THEN [s EXCEPT !.shown.full = TRUE,
                 !.shown.quiz_items = IF s.smart_quiz_data.present
                                      THEN s.smart_quiz_data.quiz ELSE PyList(<<>>),
                 !.shown.quiz_src = s.smart_quiz_data.src]
  ELSE s

\* a script run in which no button is pressed: lines 110-259
Rendered(s, pair) == FullQuiz(Companion(Top(s), pair))

\* lines 91-107 and the rest of the run: Generate pressed with text in the
\* text area, out being what the pipeline does
Generated(s, text, out, pair) ==
  IF Strip(text) = <<>> \/ out.raised THEN Top(s)
  ELSE Rendered([s EXCEPT !.map_data = TRUE, !.map_summary = out.summary], pair)

\* the page is loaded, or a widget other than the buttons below reruns the script
AppRun ==
  /\ ss.runs < MaxRuns
  /\ \E pair \in QuizPairs(ss.map_summary) : ss' = Rendered(ss, pair)
  /\ UNCHANGED <<gwVars, buildVars, pipeVars, qz, rp>>

\* "Generate Mind Map" is pressed
AppGenerate ==
  /\ ss.runs < MaxRuns
  /\ \E text \in AppTexts, out \in MapOutcomes :
       \E pair \in QuizPairs(out.summary) : ss' = Generated(ss, text, out, pair)
  /\ UNCHANGED <<gwVars, buildVars, pipeVars, qz, rp>>

\* "Open Full Quiz" is pressed (lines 170-173); the button is on the page
\* only when the companion shows cards
AppOpenFullQuiz ==
  /\ ss.runs < MaxRuns
  /\ ss.shown.companion = "cards"
  /\ \E pair \in QuizPairs(ss.map_summary) :
       ss' = Rendered([Companion(ss, pair) EXCEPT !.show_quiz_full = TRUE], pair)
  /\ UNCHANGED <<gwVars, buildVars, pipeVars, qz, rp>>

\* "Close Quiz and Return to Map" is pressed (lines 257-259)
AppCloseQuiz ==
  /\ ss.runs < MaxRuns
  /\ ss.shown.full
  /\ \E pair \in QuizPairs(ss.map_summary) :
       ss' = Rendered([FullQuiz(Companion(ss, pair)) EXCEPT !.show_quiz_full = FALSE], pair)
  /\ UNCHANGED <<gwVars, buildVars, pipeVars, qz, rp>>

InitApp == InitCommon

NextApp == AppRun \/ AppGenerate \/ AppOpenFullQuiz \/ AppCloseQuiz

SpecApp == InitApp /\ [][NextApp]_vars

\* ------------------------------------------------------------ properties

\* the nodes of the result
NodeIdx == 1..Len(nodes)

\* a _call_gemini call was issued at the site
Issued(site) == \E i \in 1..Len(requests) : requests[i].site = site

\* a non-empty sequence
NonEmptySeq(v) == v.t = "list" /\ v.items # <<>>

\* C1: for every input text and every behaviour of the external model,
\* process_text_to_mindmap returns {nodes, edges, meta} and never raises an
\* exception to its caller.
C1_NeverRaises == pc # "raised"

\* C2: whenever the repaired result of the stricter-prompt retry is not a
\* non-empty sequence, the pipeline takes the degenerate fallback (one node, no
\* edges, meta.warning = "parse_failed") and never passes the value to the
\* Hierarchy Builder.
C2_RetryThenFallback ==
  (Issued("retry") /\ pc # "retry" /\ ~NonEmptySeq(loc.structure)) =>
    /\ bcall.count = 0
    /\ pc = "returned"
    /\ Len(nodes) = 1
    /\ edges = <<>>
    /\ "warning" \in DOMAIN meta
    /\ meta.warning = "parse_failed"

\* the text argument is missing, empty or made of whitespace only
IsBlankArg(a) == a.none \/ \A i \in 1..Len(a.s) : a.s[i] \in Whitespace

\* C3: for input that is empty, whitespace-only or missing,
\* process_text_to_mindmap returns nodes = [], edges = [] and
\* meta.error = "no_text", and issues no call to the external model.
C3_EmptyInput ==
  IsBlankArg(args.text) =>
    /\ pc \in {"start", "returned"}
    /\ requests = <<>>
    /\ gw.status = "idle"
    /\ gw.calls = 0
    /\ gwLog = <<>>
    /\ pc = "returned" =>
         /\ nodes = <<>>
         /\ edges = <<>>
         /\ meta = [summary |-> <<>>, error |-> "no_text"]

\* C3's case: a whitespace-only text, returned
C3_Witness ==
  /\ pc = "returned"
  /\ ~args.text.none
  /\ args.text.s # <<>>
  /\ IsBlankArg(args.text)

\* every invocation of the call so far failed
AllFailed == \A i \in 1..Len(gwLog) : ~gwLog[i].ok

\* C4 (amended): for any retries value r >= 0, _call_gemini invokes the model
\* at most r+1 times, stops at the first invocation that succeeds and returns
\* that response's stripped text, returns "__GEMINI_ERROR__: " followed by the
\* last failure's message when all r+1 invocations failed, and never raises; a
\* returned string without the prefix implies a successful invocation.
C4_Gateway ==
  /\ gw.status \in {"running", "returned"}
  /\ gw.calls = Len(gwLog)
  /\ gw.calls <= gw.retry + 1
  /\ \A i \in 1..Len(gwLog) :
       gwLog[i].ok => (i = Len(gwLog) /\ gw.status = "returned")
  /\ (AllFailed /\ Len(gwLog) = gw.retry + 1) => gw.status = "returned"
  /\ gw.status = "returned" =>
       /\ gwLog # <<>>
       /\ LET last == gwLog[Len(gwLog)]
          IN  IF last.ok
              THEN gw.result = Strip(IF last.text = <<>> THEN ReprOfResponse ELSE last.text)
              ELSE /\ Len(gwLog) = gw.retry + 1
                   /\ gw.result = GEMINI_ERROR \o last.text
       /\ ~StartsWith(gw.result, GEMINI_ERROR) => ~AllFailed

\* C4's case: a failed invocation, then a successful one with retries left
C4_Witness ==
  /\ gw.status = "returned"
  /\ gw.retry = MaxRetry
  /\ Len(gwLog) = 2
  /\ ~gwLog[1].ok
  /\ gwLog[2].ok

\* C4 (as stated): the returned string has the prefix "__GEMINI_ERROR__: "
\* exactly when all r+1 invocations failed.
C4_PrefixExactlyWhenAllFailed ==
  gw.status = "returned" =>
    (StartsWith(gw.result, GEMINI_ERROR) <=> (AllFailed /\ Len(gwLog) = gw.retry + 1))

\* the call that just returned gave the sentinel failure string
GwFailed == gw.status = "returned" /\ gwLog # <<>> /\ ~gwLog[Len(gwLog)].ok

\* C5: at each of the three repair call sites, when the Gateway returns a
\* sentinel failure string, whatever its detail text, the stage takes its
\* fallback: hierarchy acquisition goes to the retry and then to the degenerate
\* graph, the summary stage sets no summary and no quiz, and the explanation
\* stage assigns no explanation taken from the error message.
C5_SentinelIsNotPayload ==
  [][GwFailed =>
       /\ pc = "structure" => pc' = "retry"
       /\ pc = "retry" => (pc' = "returned" /\ bcall'.count = 0)
       /\ pc = "summary" => ("summary" \notin DOMAIN meta' /\ "quiz" \notin DOMAIN meta')
       /\ pc = "explain" =>
            \A i \in 1..Len(nodes') :
              nodes'[i].ai_explanation \in {PyStr(NoExplanation), PyStr(ExplanationUnavailable)}
    ]_vars

\* the number of items of an outline, at any depth: an item's subtopics count
\* when they are a list
RECURSIVE CountItems(_)
CountItems(items) ==
  IF items = <<>> THEN 0
  ELSE LET item == items[1]
           subs == IF item.t = "dict" THEN DictGet(item, Ksubtopics, PyList(<<>>)) ELSE PyNone
       IN  1 + (IF subs.t = "list" THEN CountItems(subs.items) ELSE 0)
             + CountItems(Tail(items))

\* C6: for any outline with N items in total across any nesting depth, of
\* which T are top-level, build_graph_from_hierarchy called with only the
\* outline returns exactly N nodes and exactly N - T edges, with nothing left
\* over from an earlier call.
C6_NodeAndEdgeCounts ==
  bst = "returned" =>
    /\ Len(nodes) = CountItems(bcall.hierarchy.items)
    /\ Len(edges) = CountItems(bcall.hierarchy.items) - Len(bcall.hierarchy.items)

\* C6's case: a second call in a row, on a nested outline, returned
C6_Witness ==
  /\ bst = "returned"
  /\ bcall.count = MaxBuildCalls
  /\ Len(bcall.hierarchy.items) = 2
  /\ Len(nodes) > 2
  /\ Len(edges) = Len(nodes) - 2

\* C7: in every graph returned by build_graph_from_hierarchy the node ids are
\* pairwise distinct, whatever values _short_id draws.
C7_UniqueIds ==
  bst = "returned" => \A i, j \in NodeIdx : i # j => nodes[i].id # nodes[j].id

\* C8: every node of a result returned by process_text_to_mindmap, on the
\* normal path and on the degenerate fallback path alike, has a label of at
\* most 140 characters, a summary of at most 400 characters and at most 6 key
\* points.
C8_BoundedNodes ==
  pc = "returned" =>
    \A i \in NodeIdx :
      /\ PyLen(nodes[i].label) <= 140
      /\ PyLen(nodes[i].summary) <= 400
      /\ "key_points" \in DOMAIN nodes[i] => PyLen(nodes[i].key_points) <= 6

\* the edges that point at node i, by its id
Inbound(i) == {k \in 1..Len(edges) : edges[k].target = nodes[i].id}

\* C9: in every graph returned by build_graph_from_hierarchy the edges form a
\* forest over the nodes: a top-level item's node has level 0 and no inbound
\* edge, every other node has exactly one inbound edge, and it comes from a
\* node exactly one level above it.
C9_Forest ==
  bst = "returned" =>
    \A i \in NodeIdx :
      IF nodes[i].level = 0
      THEN Inbound(i) = {}
      ELSE /\ Cardinality(Inbound(i)) = 1
           /\ \A k \in Inbound(i) :
                \E j \in NodeIdx : /\ nodes[j].id = edges[k].source
                                   /\ nodes[j].level = nodes[i].level - 1

\* C10: build_graph_from_hierarchy never fails the whole build because one
\* outline item is malformed (a field absent, null or of the wrong type, or an
\* item that is not a mapping): the build still completes.
C10_ToleratesMalformedItems == bst # "raised"

\* the text the returned call gave parses to no array and no mapping
Unparsed == gw.status = "returned" /\ Repaired(gw.result).t \notin {"list", "dict"}

\* C11: if the batched-explanation stage fails (its call fails after the
\* Gateway's retries, or its response parses to no array and no mapping) while
\* the summary stage succeeded, the result still has a populated meta.summary,
\* every node has ai_explanation = "Explanation unavailable." and
\* meta.tooltip_error is recorded.
C11_ExplanationFailure ==
  [][(pc = "explain" /\ pc' # "explain" /\ (GwFailed \/ Unparsed)
        /\ "summary" \in DOMAIN meta) =>
       /\ "summary" \in DOMAIN meta'
       /\ meta'.summary = meta.summary
       /\ "tooltip_error" \in DOMAIN meta'
       /\ \A i \in 1..Len(nodes') :
            nodes'[i].ai_explanation = PyStr(ExplanationUnavailable)
    ]_vars

\* C12: whenever the enabled summary+quiz stage fails to produce a summary (its
\* call fails after the Gateway's retries, or its response is unparseable or of
\* the wrong shape), the failure is recorded under meta.summary_error,
\* meta.summary and meta.quiz stay unset, and the explanation and keyword
\* stages still run.
C12_SummaryFailure ==
  [][(pc = "summary" /\ pc' # "summary" /\ (GwFailed \/ Repaired(gw.result).t # "dict")) =>
       /\ "summary_error" \in DOMAIN meta'
       /\ "summary" \notin DOMAIN meta'
       /\ "quiz" \notin DOMAIN meta'
       /\ pc' \in {"explain", "keywords"}
    ]_vars

\* the tokens of the nodes' labels and summaries, lowercased and with the
\* punctuation set stripped, that are longer than 3 characters
StrippedLongTokens(ns) ==
  LET pool == Join(<<" ">>, [i \in 1..Len(ns) |-> ns[i].label.s \o <<" ">> \o ns[i].summary.s])
      ws == SplitWords(pool)
      clean == [i \in 1..Len(ws) |-> StripChars(Lower(ws[i]), Punctuation)]
  IN  SelectIdx(clean, {i \in 1..Len(ws) : Len(clean[i]) > 3})

\* C13: on the normal path meta.keywords holds at most 12 entries, each one a
\* lowercased token with the punctuation set stripped that is longer than 3
\* characters, and they are the most frequent such tokens of the nodes' labels
\* and summaries, in descending frequency with ties in first-encountered order.
C13_Keywords ==
  (pc = "returned" /\ "keywords" \in DOMAIN meta /\ LabelsAreStrings(nodes)) =>
    /\ Len(meta.keywords) <= 12
    /\ \A k \in 1..Len(meta.keywords) : Len(meta.keywords[k]) > 3
    /\ meta.keywords = MostCommon(StrippedLongTokens(nodes), 12)

\* the text is empty or made of whitespace only
IsBlank(t) == \A i \in 1..Len(t) : t[i] \in Whitespace

\* C14: generate_quiz_and_flashcards returns two empty sequences without any
\* model call when the summary is empty or blank; for a non-blank summary it
\* makes exactly one model call, with no retry, and any failure of that call or
\* of parsing its response yields two empty sequences rather than an exception.
C14_QuizGenerator ==
  /\ qz.status \in {"idle", "calling", "returned"}
  /\ qz.calls <= 1
  /\ qz.status = "calling" => (qz.calls = 0 /\ ~IsBlank(qz.summary_text))
  /\ qz.status = "returned" =>
       IF IsBlank(qz.summary_text)
       THEN /\ qz.calls = 0
            /\ qz.flashcards = PyList(<<>>)
            /\ qz.quiz = PyList(<<>>)
       ELSE /\ qz.calls = 1
            /\ LET last == qz.log[Len(qz.log)]
               IN  (~last.ok \/ last.text \in {TxtAb, QuizTxtBroken, TxtListOfNum}) =>
                     (qz.flashcards = PyList(<<>>) /\ qz.quiz = PyList(<<>>))

\* C14's case: a blank summary returned without a call, after an earlier call
\* with a non-blank summary whose model call failed
C14_Witness ==
  /\ qz.status = "returned"
  /\ qz.done = 2
  /\ qz.summary_text = TxtBlank
  /\ qz.log = <<[ok |-> FALSE, text |-> ErrPlain]>>

\* the value of the JSON text the call was given
ValueOfJson == (CHOOSE c \in JsonCases : c.text = rp.json).value

HasQuote(t) == \E i \in 1..Len(t) : t[i] = "\""

\* C15 (amended): for any valid JSON object or array J and any surrounding
\* prose, possibly empty, that holds no brace, no bracket and no double quote,
\* _safe_json_loads(prefix + J + suffix) returns the value of J; for a text from
\* which neither the direct parse nor the extracted span parses it returns the
\* failure indicator None; it never raises.
C15_RepairRoundTrip ==
  /\ rp.status \in {"idle", "called", "returned"}
  /\ (rp.status = "returned" /\ ~HasQuote(rp.prefix) /\ ~HasQuote(rp.suffix)) =>
       IF rp.json \in ValidJson
       THEN rp.result = ValueOfJson
       ELSE rp.result = PyNone

\* C15's case: a nested array inside prose on both sides, repaired
C15_Witness ==
  /\ rp.status = "returned"
  /\ rp.json = TxtNested
  /\ Len(rp.prefix) > 2
  /\ Len(rp.suffix) > 2
  /\ rp.result = PyList(<<PyDict(<<<<"a">>>>, <<PyList(<<PyNum(1)>>)>>)>>)

\* C15 (as stated): for any valid JSON object or array J and any surrounding
\* prose that holds no brace and no bracket, the call returns the value of J.
C15_AnyProse ==
  (rp.status = "returned" /\ rp.json \in ValidJson) => rp.result = ValueOfJson

\* the run ended in the degenerate fallback
FellBack == pc = "returned" /\ "warning" \in DOMAIN meta

\* C16 (amended): in the result of the degenerate fallback, meta.summary
\* equals the first 800 characters of the input text after it was stripped of
\* leading and trailing whitespace.
C16_FallbackSummary ==
  FellBack => meta.summary = Take(Strip(args.text.s), 800)

\* C16's case: the fallback for an input of more than 800 characters
C16_Witness ==
  /\ FellBack
  /\ Len(Strip(args.text.s)) > 800
  /\ Len(meta.summary) = 800

\* C16 (as stated): in the result of the degenerate fallback, meta.summary
\* equals the first 800 characters of the input text that was passed.
C16_FallbackSummaryOfRawInput ==
  FellBack => meta.summary = Take(args.text.s, 800)

\* the place of a request in the order of the pipeline's stages
Rank(site) ==
  CASE site = "chunk" -> 1
    [] site = "title" -> 2
    [] site = "structure" -> 3
    [] site = "retry" -> 4
    [] site = "summary" -> 5
    [] site = "explain" -> 6

\* the requests issued so far are in stage order, each stage but the chunk
\* summaries at most once, none before the stages it depends on
RequestsInOrder ==
  /\ \A i, j \in 1..Len(requests) :
       i < j => /\ Rank(requests[i].site) <= Rank(requests[j].site)
                /\ Rank(requests[i].site) = Rank(requests[j].site)
                     => requests[j].site = "chunk"
  /\ \A i \in 1..Len(requests) :
       /\ Rank(requests[i].site) >= 3 => Issued("title")
       /\ Rank(requests[i].site) >= 4 => Issued("structure")
  /\ pc \in {"structure", "retry", "build", "summary", "explain", "keywords"}
       => Issued("structure")
  /\ pc \in {"start", "chunks", "title", "structure"} => ~Issued("retry")
  /\ FellBack => (Issued("retry") /\ ~Issued("summary") /\ ~Issued("explain"))

\* C17: in any run of process_text_to_mindmap the requests are issued strictly
\* in the order chunk summaries, root title, structuring, stricter retry,
\* summary+quiz, explanations; the structuring request is issued once, the
\* stricter retry at most once and exactly when the first repaired result is
\* not a non-empty list, and a run that ends in the degenerate fallback issues
\* no enrichment request.
C17_RequestOrder ==
  /\ []RequestsInOrder
  /\ [][(pc = "structure" /\ pc' # "structure") =>
          (Issued("retry")' <=> ~NonEmptySeq(Repaired(gw.result)))]_vars

\* C17's case: a run that issued the retry and then both enrichment requests
C17_Witness ==
  /\ pc = "returned"
  /\ Len(requests) = 5
  /\ requests[2].site = "structure"
  /\ requests[3].site = "retry"
  /\ requests[4].site = "summary"
  /\ requests[5].site = "explain"

\* the input after the strip of line 176
StrippedInput == IF args.text.none THEN <<>> ELSE Strip(args.text.s)

\* the texts of the chunk-summary requests issued so far, in order
ChunkRequests ==
  LET idx == {i \in 1..Len(requests) : requests[i].site = "chunk"}
  IN  [k \in 1..Cardinality(idx) |-> requests[k].arg]

RECURSIVE Concat(_)
Concat(parts) == IF parts = <<>> THEN <<>> ELSE parts[1] \o Concat(Tail(parts))

\* the first line of a text, without its surrounding whitespace
FirstLineOf(t) ==
  LET nl == {i \in 1..Len(t) : t[i] = "\n"}
  IN  Strip(IF nl = {} THEN t ELSE SubSeq(t, 1, (CHOOSE i \in nl : \A j \in nl : i <= j) - 1))

\* the chunk requests and the working text, as they stand in a state
ChunkingInState ==
  \E S \in {StrippedInput}, cr \in {ChunkRequests}, n \in {args.chunk_threshold_chars} :
      IF Len(S) <= n
      THEN /\ cr = <<>>
           /\ \A i \in 1..Len(requests) :
                requests[i].site \in {"title", "structure"} => requests[i].arg = S
      ELSE /\ \A k \in 1..Len(cr) :
                /\ Len(cr[k]) >= 1
                /\ Len(cr[k]) <= n
                /\ k < Len(cr) => Len(cr[k]) = n
           /\ Concat(cr) = SubSeq(S, 1, Len(Concat(cr)))
           /\ \A i \in 1..Len(requests) : requests[i].site = "chunk" => i <= Len(cr)
           /\ Issued("title") =>
                /\ Concat(cr) = S
                /\ Len(loc.summaries) = Len(cr)
                /\ \A i \in 1..Len(requests) :
                     requests[i].site \in {"title", "structure"} =>
                       requests[i].arg = Join(<<"\n">>, loc.summaries)

ExplanationsParsed ==
  /\ pc = "explain"
  /\ gw.status = "returned"
  /\ ~GwFailed
  /\ Repaired(gw.result).t \in {"list", "dict"}
  /\ Repaired(gw.result).t = "list" =>
       \A k \in 1..Len(Repaired(gw.result).items) :
         /\ Repaired(gw.result).items[k].t = "dict"
         /\ DictGet(Repaired(gw.result).items[k], Ktitle, PyStr(<<>>)).t \in {"str", "none"}

\* the title of item k of a parsed list ("" when absent or null)
TitleAt(parsed, k) ==
  LET t == DictGet(parsed.items[k], Ktitle, PyNone)
  IN  IF t.t = "str" THEN t.s ELSE <<>>

\* the explanation a label is given, Same(title, label) telling which titles
\* match it: the last matching entry's, "" for a list item without one
ExplanationFor(parsed, label, Same(_, _)) ==
  IF parsed.t = "list"
  THEN LET hits == {k \in 1..Len(parsed.items) : Same(TitleAt(parsed, k), label)}
       IN  IF hits = {} THEN PyStr(NoExplanation)
           ELSE LET k == CHOOSE h \in hits : \A g \in hits : g <= h
                    ex == DictGet(parsed.items[k], Kexplanation, PyNone)
                IN  IF Truthy(ex) THEN ex ELSE PyStr(<<>>)
  ELSE LET hits == {k \in 1..Len(parsed.keys) : Same(parsed.keys[k], label)}
       IN  IF hits = {} THEN PyStr(NoExplanation)
           ELSE parsed.vals[CHOOSE h \in hits : \A g \in hits : g <= h]

TrimmedEqual(title, label) == Strip(title) = Strip(label)

EqualToTrimmed(title, label) == title = Strip(label)

\* a step of the enrichment stages changes no edge and, of the nodes, nothing
\* but ai_explanation
OnlyExplanationChanges ==
  (pc \in {"summary", "explain", "keywords"} \/ (pc = "build" /\ bst = "returned")) =>
    /\ edges' = edges
    /\ Len(nodes') = Len(nodes)
    /\ \A i \in 1..Len(nodes) :
         /\ DOMAIN nodes'[i] \subseteq (DOMAIN nodes[i] \cup {"ai_explanation"})
         /\ \A f \in DOMAIN nodes[i] \ {"ai_explanation"} : nodes'[i][f] = nodes[i][f]

\* C19 (amended): on the normal path, when the explanation response parses to
\* an array of title/explanation items or to a title-to-explanation mapping,
\* every node of the returned graph has an ai_explanation: the explanation of
\* the last entry whose trimmed title equals the node's trimmed label ("" when
\* that array item has no explanation), or "No explanation available." when no
\* trimmed title matches; no other field of any node and no edge is changed by
\* the enrichment stages.
C19_Explanations ==
  [][/\ OnlyExplanationChanges
     /\ (ExplanationsParsed /\ pc' # "explain") =>
          \A i \in 1..Len(nodes') :
            nodes'[i].ai_explanation =
              ExplanationFor(Repaired(gw.result), nodes[i].label.s, TrimmedEqual)
    ]_vars

\* C19's case: three nodes returned, one explained by an entry whose title has
\* spaces around it, one by an entry without explanation, one unmatched
C19_Witness ==
  /\ pc = "returned"
  /\ Len(nodes) = 3
  /\ "ai_explanation" \in DOMAIN nodes[1]
  /\ nodes[1].ai_explanation = PyStr(<<"E", "x">>)
  /\ nodes[2].ai_explanation = PyStr(<<>>)
  /\ nodes[3].ai_explanation = PyStr(NoExplanation)

\* C19 (as stated): each node's ai_explanation is the explanation whose title
\* equals the node's trimmed label exactly, or "No explanation available."
\* when no title matches.
C19_TitleEqualsTrimmedLabel ==
  [][(ExplanationsParsed /\ pc' # "explain") =>
       \A i \in 1..Len(nodes') :
         nodes'[i].ai_explanation =
           ExplanationFor(Repaired(gw.result), nodes[i].label.s, EqualToTrimmed)
    ]_vars

\* C20: after any sequence of Generate actions, the flashcards and quiz held in
\* session state (smart_quiz_data) and shown in the companion and full-quiz
\* views were generated from the summary of the most recently generated mind map
\* (map_meta, which every successful Generate replaces).
C20_QuizOfLatestMap ==
  /\ ss.smart_quiz_data.present => ss.smart_quiz_data.src = ss.map_summary
  /\ ss.shown.companion = "cards" => ss.shown.src = ss.map_summary
  /\ ss.shown.full => ss.shown.quiz_src = ss.map_summary
====
